---- MODULE Spec2Model ----
(***************************************************************************)
(* Model of simbatch.py: the batch driver that runs one BondMachine        *)
(* simulation per row of an input CSV file and writes one output row per   *)
(* accepted input row.                                                     *)
(*                                                                         *)
(* Text is modelled as a tuple of one-character strings, so that the       *)
(* Python string operations (strip, split, replace, join) are computed as  *)
(* Python computes them.  A Python dict is modelled as a tuple of          *)
(* <<key, value>> pairs in insertion order.                                *)
(***************************************************************************)
EXTENDS Integers, Sequences, FiniteSets, TLC

(***************************************************************************)
(* Bounds of the model.                                                    *)
(***************************************************************************)
\* the number of lines of the input file is at most MaxLines
MaxLines == 2

(***************************************************************************)
(* Python string operations.                                               *)
(***************************************************************************)
\* the characters str.strip() and str.split() treat as white space
Whitespace == {" ", "\t", "\n"}

Digits == <<"0", "1", "2", "3", "4", "5", "6", "7", "8", "9">>

RECURSIVE LStripSet(_, _)
LStripSet(s, cs) ==
  IF s # <<>> /\ Head(s) \in cs THEN LStripSet(Tail(s), cs) ELSE s

RECURSIVE RStripSet(_, _)
RStripSet(s, cs) ==
  IF s # <<>> /\ s[Len(s)] \in cs THEN RStripSet(SubSeq(s, 1, Len(s) - 1), cs) ELSE s

\* s.strip()
Strip(s) == RStripSet(LStripSet(s, Whitespace), Whitespace)

\* s.strip(chars)
StripChars(s, cs) == RStripSet(LStripSet(s, cs), cs)

\* s.split(c) for a one-character separator: never an empty list
RECURSIVE Split(_, _)
Split(s, c) ==
  IF \A i \in 1..Len(s) : s[i] # c
  THEN <<s>>
  ELSE LET i == CHOOSE k \in 1..Len(s) : s[k] = c /\ \A j \in 1..(k - 1) : s[j] # c
       IN  <<SubSeq(s, 1, i - 1)>> \o Split(SubSeq(s, i + 1, Len(s)), c)

\* s.split(): runs of white space separate the words, no empty word
RECURSIVE SplitWS(_)
SplitWS(s) ==
  LET t == LStripSet(s, Whitespace)
  IN  IF t = <<>>
      THEN <<>>
      ELSE IF \A i \in 1..Len(t) : t[i] \notin Whitespace
      THEN <<t>>
      ELSE LET i == CHOOSE k \in 1..Len(t) :
                      t[k] \in Whitespace /\ \A j \in 1..(k - 1) : t[j] \notin Whitespace
           IN  <<SubSeq(t, 1, i - 1)>> \o SplitWS(SubSeq(t, i + 1, Len(t)))

StartsWith(s, p) == Len(p) <= Len(s) /\ SubSeq(s, 1, Len(p)) = p

\* s.replace(old, new): the occurrences of old, left to right, not overlapping
RECURSIVE Replace(_, _, _)
Replace(s, old, new) ==
  IF old = <<>>
  THEN IF s = <<>> THEN new ELSE new \o <<Head(s)>> \o Replace(Tail(s), old, new)
  ELSE IF s = <<>>
  THEN <<>>
  ELSE IF StartsWith(s, old)
  THEN new \o Replace(SubSeq(s, Len(old) + 1, Len(s)), old, new)
  ELSE <<Head(s)>> \o Replace(Tail(s), old, new)

\* sep.join(parts)
RECURSIVE Join(_, _)
Join(sep, parts) ==
  IF parts = <<>>
  THEN <<>>
  ELSE IF Len(parts) = 1
  THEN parts[1]
  ELSE parts[1] \o sep \o Join(sep, Tail(parts))

\* str(n) of an integer
RECURSIVE IntToStr(_)
IntToStr(n) ==
  IF n < 0
  THEN <<"-">> \o IntToStr(0 - n)
  ELSE IF n < 10
  THEN <<Digits[n + 1]>>
  ELSE IntToStr(n \div 10) \o <<Digits[(n % 10) + 1]>>

(***************************************************************************)
(* Python dict, in insertion order.                                        *)
(***************************************************************************)
DictHas(d, k) == \E i \in 1..Len(d) : d[i][1] = k

DictGet(d, k) == d[CHOOSE i \in 1..Len(d) : d[i][1] = k][2]

\* d[k] = v : a known key keeps its place, a new key goes last
DictSet(d, k, v) ==
  IF DictHas(d, k)
  THEN [i \in 1..Len(d) |-> IF d[i][1] = k THEN <<k, v>> ELSE d[i]]
  ELSE Append(d, <<k, v>>)

\* the loop that reads the lines of a listing: a line of two words sets d[w1] = w2
RECURSIVE LoadMap(_, _)
LoadMap(d, lines) ==
  IF lines = <<>>
  THEN d
  ELSE LET result == SplitWS(Head(lines))
       IN  LoadMap(IF Len(result) = 2 THEN DictSet(d, result[1], result[2]) ELSE d,
                   Tail(lines))

\* the loop that reads the lines of bmnumbers -get-prefix: the last line, stripped
RECURSIVE LoadPrefix(_, _)
LoadPrefix(p, lines) ==
  IF lines = <<>> THEN p ELSE LoadPrefix(Strip(Head(lines)), Tail(lines))

(***************************************************************************)
(* Result decoding (the tail of the row loop).                             *)
(***************************************************************************)
IsDigit(c) == \E d \in 1..10 : Digits[d] = c

\* a token numpy converts to float32: here, decimal digits with at most one
\* point among them, and at least one digit
IsFloat(tok) ==
  /\ \A i \in 1..Len(tok) : IsDigit(tok[i]) \/ tok[i] = "."
  /\ \E i \in 1..Len(tok) : IsDigit(tok[i])
  /\ Cardinality({ i \in 1..Len(tok) : tok[i] = "." }) <= 1

DigitVal(c) == (CHOOSE d \in 1..10 : Digits[d] = c) - 1

\* the value of a run of digits
RECURSIVE DecVal(_)
DecVal(ds) ==
  IF ds = <<>>
  THEN 0
  ELSE 10 * DecVal(SubSeq(ds, 1, Len(ds) - 1)) + DigitVal(ds[Len(ds)])

\* the value of such a token, in thousandths (three decimals are compared)
FloatVal(tok) ==
  LET parts == Split(tok, ".")
      frac  == IF Len(parts) > 1 THEN parts[2] ELSE <<>>
      milli == SubSeq(frac \o <<"0", "0", "0">>, 1, 3)
  IN  1000 * DecVal(parts[1]) + DecVal(milli)

\* an argmax in which a later equal value wins
RECURSIVE ArgMaxLastUpTo(_, _)
ArgMaxLastUpTo(vals, k) ==
  IF k = 1
  THEN 0
  ELSE LET best == ArgMaxLastUpTo(vals, k - 1)
       IN  IF vals[k] >= vals[best + 1] THEN k - 1 ELSE best

\* np.argmax over vals[1..k], zero-based: a later value wins only when greater
RECURSIVE ArgMaxUpTo(_, _)
ArgMaxUpTo(vals, k) ==
  IF k = 1
  THEN 0
  ELSE LET best == ArgMaxUpTo(vals, k - 1)
       IN  IF vals[k] > vals[best + 1] THEN k - 1 ELSE best

ArgMax(vals) == ArgMaxUpTo(vals, Len(vals))

\* Stripped that removes a leading prefix only
StrippedLeadingOnly(out, omit, pfx) ==
  IF omit /\ StartsWith(Strip(out), pfx)
  THEN SubSeq(Strip(out), Len(pfx) + 1, Len(Strip(out)))
  ELSE Strip(out)

\* outline after strip() and the removal of the prefix
Stripped(out, omit, pfx) ==
  IF omit THEN Replace(Strip(out), pfx, <<>>) ELSE Strip(out)

\* parts = outline.split(' ') in benchCore mode
BenchParts(outline) == Split(outline, " ")

\* latency_cycles = parts[-1]
LatencyCycles(outline) == BenchParts(outline)[Len(BenchParts(outline))]

\* BenchRest with the last token left in
BenchRestKeepAll(outline) == Join(<<" ">>, BenchParts(outline))

\* outline = " ".join(parts[:-1])
BenchRest(outline) ==
  Join(<<" ">>, SubSeq(BenchParts(outline), 1, Len(BenchParts(outline)) - 1))

\* outline as the isml / plain branch receives it
Payload(out, bench, omit, pfx) ==
  IF bench THEN BenchRest(Stripped(out, omit, pfx)) ELSE Stripped(out, omit, pfx)

\* vals.astype(np.float32) raises ValueError on a token that is no number
DecodeRaises(out, ml, bench, omit, pfx) ==
  ml /\ \E i \in 1..Len(Split(Payload(out, bench, omit, pfx), " ")) :
          ~IsFloat(Split(Payload(out, bench, omit, pfx), " ")[i])

\* the text of the output line, without its line terminator
DecodeLine(out, ml, bench, omit, pfx) ==
  LET outline == Payload(out, bench, omit, pfx)
      toks    == Split(outline, " ")
      vals    == [i \in 1..Len(toks) |-> FloatVal(toks[i])]
      body    == IF ml
                 THEN Replace(outline, <<" ">>, <<",">>) \o <<",">> \o IntToStr(ArgMax(vals))
                 ELSE Replace(StripChars(outline, {","}), <<" ">>, <<",">>)
  IN  IF bench
      THEN body \o <<",">> \o LatencyCycles(Stripped(out, omit, pfx))
      ELSE body

\* the header line, without its line terminator
RECURSIVE HeaderProbs(_)
HeaderProbs(k) ==
  IF k = 0
  THEN <<>>
  ELSE HeaderProbs(k - 1) \o <<"probability_">> \o IntToStr(k - 1) \o <<",">>

HeaderLine(ml, bench, nout) ==
  (IF ml THEN HeaderProbs(nout) \o <<"classification">> ELSE <<>>)
  \o (IF bench THEN <<",", "latency_cycles">> ELSE <<>>)

(***************************************************************************)
(* What the environment can supply.                                        *)
(***************************************************************************)
\* standard output of bondmachine -list-inputs, line by line
InputListings ==
  { << <<"0", " ", "a", "\n">> >>,
    << <<"0", " ", "a", "\n">>, <<"1", " ", "b", "\n">>, <<"\n">> >> }

\* standard output of bondmachine -list-outputs, line by line
OutputListings ==
  { << <<"0", " ", "o", "0", "\n">> >>,
    << <<"0", " ", "o", "0", "\n">>, <<"1", " ", "o", "1", "\n">> >> }

\* standard output of bmnumbers -get-prefix, line by line
PrefixListings == { <<>>, << <<"0", "f", "\n">> >>, << <<"0", "x", "\n">> >> }

\* the lines an input file is made of
Lines ==
  { <<"\n">>,
    <<" ", "\n">>,
    <<"7", "\n">>,
    <<" ", "2", ",", "1">> }

\* standard output of a simulation
Readouts ==
  { <<>>,
    <<"0", "f", "3", ".", "5", "\n">>,
    <<"0", "f", "0", ".", "1", " ", "0", "f", "0", ".", "9", "\n">>,
    <<"0", "f", "2", " ", "0", "f", "2", "\n">> }

\* completion statuses of an external command
ReturnCodes == {0, 1}

\* values of the option -v / --stop-on-valid-of, the default among them
StopOptions == {-1, 0}

(***************************************************************************)
(* Program constants.                                                      *)
(***************************************************************************)
data_type == <<"float32">>

default_prefix == <<"0", "f">>

\* -P is not among the options getopt is given: omit_prefix stays True
omit_prefix == TRUE

\* one external sandbox or engine action
Act(kind, name, value, n) == [kind |-> kind, name |-> name, value |-> value, n |-> n]

Toggle(t) == Act("add config", <<t>>, <<>>, 0)

Suspend(n) == Act("suspend", <<>>, <<>>, n)

\* commands with every suspend put before its toggle
commandsSuspendFirst ==
  << Suspend(0), Toggle("show_io_pre"),
     Suspend(1), Toggle("show_io_post"),
     Suspend(2), Toggle("show_ticks"),
     Suspend(3), Toggle("show_pc"),
     Suspend(4), Toggle("show_disasm") >>

\* the simbox general commands
commands ==
  << Toggle("show_io_pre"),  Suspend(0),
     Toggle("show_io_post"), Suspend(1),
     Toggle("show_ticks"),   Suspend(2),
     Toggle("show_pc"),      Suspend(3),
     Toggle("show_disasm"),  Suspend(4) >>

\* BindCommand with name and value exchanged
BindCommandSwapped(name, value) == Act("add absolute:0:set", value, name, 0)

\* -add "absolute:0:set:<name>:<value>"
BindCommand(name, value) == Act("add absolute:0:set", name, value, 0)

\* CaptureEncoding that looks for o<len(outputs)>
CaptureEncodingOffByOne(bench, outs, id) ==
  IF bench /\ id = <<"o">> \o IntToStr(Len(outs)) THEN <<"unsigned">> ELSE data_type

\* the encoding of a capture: unsigned for o<len(outputs)-1> in benchCore mode
CaptureEncoding(bench, outs, id) ==
  IF bench /\ id = <<"o">> \o IntToStr(Len(outs) - 1) THEN <<"unsigned">> ELSE data_type

\* -add "onexit:show:<id>:<encoding>"
CaptureCommand(bench, outs, id) ==
  Act("add onexit:show", id, CaptureEncoding(bench, outs, id), 0)

\* a stop target that keeps the value of option -v when one was given
StopTargetFromOption(user, outs) == IF user >= 0 THEN user ELSE Len(outs) - 1

\* stopOnValidOf = len(outputs) - 1
StopTarget(user, outs) == Len(outs) - 1

\* bondmachine ... -sim-stop-on-valid-of <n> -sim
RunCommand(stop) == Act("sim", <<>>, <<>>, stop)

(***************************************************************************)
(* State.                                                                  *)
(***************************************************************************)
VARIABLES
  pc,             \* where the script is
  isml,           \* option -m
  benchCore,      \* option -b
  header,         \* option -H
  opts_v,         \* opts: the value given with -v, -1 when the option is absent
  stopOnValidOf,  \* option -v, then the value the row loop assigns
  inputs,         \* dict: index text -> input name
  outputs,        \* dict: index text -> output id
  prefix,         \* the number prefix
  rc,             \* p.returncode of the last external command
  stdout,         \* unread standard output of the last simulation
  lineNo,         \* lines of the input file consumed
  line,           \* line, stripped
  inputs_values,  \* line.split(",")
  idx,            \* position in the running for loop
  simbox,         \* content of simboxtemp.json: the actions added to it
  outfile,        \* lines written to the output file
  issued,         \* sandbox and engine actions issued for the current line
  diags,          \* "invalid number of columns" diagnostics printed
  accepted,       \* lines that entered the simulation branch
  listFailed,     \* the introspection queries that completed non-zero
  readouts,       \* the readouts of the simulations that completed with status 0
  waiting,        \* the script is inside p.wait()
  running         \* child processes started and not yet waited for

vars ==
  << pc, isml, benchCore, header, opts_v, stopOnValidOf, inputs, outputs, prefix, rc,
     stdout, lineNo, line, inputs_values, idx, simbox, outfile, issued, diags,
     accepted, listFailed, readouts, waiting, running >>

options == << isml, benchCore, header, opts_v >>

maps == << inputs, outputs, prefix, listFailed >>

hist == << readouts >>

procs == << waiting, running >>

row == << lineNo, line, inputs_values, accepted, diags >>

Init ==
  /\ pc = "listInputs"
  /\ isml \in BOOLEAN
  /\ benchCore \in BOOLEAN
  /\ header \in BOOLEAN
  /\ opts_v \in StopOptions
  /\ stopOnValidOf = opts_v
  /\ inputs = <<>>
  /\ outputs = <<>>
  /\ prefix = default_prefix
  /\ rc = 0
  /\ stdout = <<>>
  /\ lineNo = 0
  /\ line = <<>>
  /\ inputs_values = <<>>
  /\ idx = 0
  /\ simbox = <<>>
  /\ outfile = <<>>
  /\ issued = <<>>
  /\ diags = 0
  /\ accepted = 0
  /\ listFailed = {}
  /\ readouts = <<>>
  /\ waiting = FALSE
  /\ running = 0

(***************************************************************************)
(* Child processes: p = subprocess.Popen(...) followed by p.wait().        *)
(***************************************************************************)
\* the statements that start a child process
ExternalPcs ==
  {"listInputs", "listOutputs", "getPrefix", "rm", "config", "bind", "capture", "run"}

\* the children left once the script goes on without waiting for the one it started
WaitOmitted(n) == n

\* the children left once p.wait() has returned
Wait(n) == n - 1

\* p = subprocess.Popen(...): the child is started; at a bind the command is
\* built first, from inputs[str(i)]
Popen ==
  /\ pc \in ExternalPcs
  /\ ~waiting
  /\ pc = "bind" => DictHas(inputs, IntToStr(idx))
  /\ waiting' = TRUE
  /\ running' = running + 1
  /\ UNCHANGED << pc, isml, benchCore, header, opts_v, stopOnValidOf, inputs, outputs,
                  prefix, rc, stdout, lineNo, line, inputs_values, idx, simbox, outfile,
                  issued, diags, accepted, listFailed, readouts >>

\* p.wait() returns: the child has ended
Reaped ==
  /\ waiting
  /\ waiting' = FALSE
  /\ running' = Wait(running)

(***************************************************************************)
(* Start-up: the three introspection queries and the header.               *)
(***************************************************************************)
\* Load the BondMachine inputs
ListInputs ==
  /\ Reaped
  /\ pc = "listInputs"
  /\ \E r \in ReturnCodes, out \in InputListings :
       /\ rc' = r
       /\ inputs' = IF r = 0 THEN LoadMap(<<>>, out) ELSE <<>>
       /\ listFailed' = IF r = 0 THEN listFailed ELSE listFailed \cup {"inputs"}
  /\ pc' = "listOutputs"
  /\ UNCHANGED << hist, options, stopOnValidOf, outputs, prefix, stdout, row, idx, simbox,
                  outfile, issued >>

\* Load the BondMachine outputs
ListOutputs ==
  /\ Reaped
  /\ pc = "listOutputs"
  /\ \E r \in ReturnCodes, out \in OutputListings :
       /\ rc' = r
       /\ outputs' = IF r = 0 THEN LoadMap(<<>>, out) ELSE <<>>
       /\ listFailed' = IF r = 0 THEN listFailed ELSE listFailed \cup {"outputs"}
  /\ pc' = "getPrefix"
  /\ UNCHANGED << hist, options, stopOnValidOf, inputs, prefix, stdout, row, idx, simbox,
                  outfile, issued >>

\* Get the number prefix
GetPrefix ==
  /\ Reaped
  /\ pc = "getPrefix"
  /\ \E r \in ReturnCodes, out \in PrefixListings :
       /\ rc' = r
       /\ prefix' = IF r = 0 THEN LoadPrefix(prefix, out) ELSE prefix
  /\ pc' = "open"
  /\ UNCHANGED << hist, options, stopOnValidOf, inputs, outputs, listFailed, stdout, row,
                  idx, simbox, outfile, issued >>

\* WriteLine with the line terminator forgotten
WriteLineNoTerminator(file, text) ==
  IF file = <<>> THEN <<text>> ELSE [file EXCEPT ![Len(file)] = @ \o text]

\* output_file_handle.write(text) followed by write("\n")
WriteLine(file, text) == Append(file, text)

\* Open the files and write the output file header if needed
OpenFiles ==
  /\ UNCHANGED procs
  /\ pc = "open"
  /\ outfile' = IF header
                 THEN WriteLine(<<>>, HeaderLine(isml, benchCore, Len(outputs)))
                 ELSE <<>>
  /\ pc' = "readLine"
  /\ UNCHANGED << hist, options, stopOnValidOf, maps, rc, stdout, row, idx, simbox, issued >>

(***************************************************************************)
(* The row loop.                                                           *)
(***************************************************************************)
\* where the loop goes once the simbox general commands are done
AfterConfig(values, outs) ==
  IF Len(values) > 0 THEN "bind" ELSE IF Len(outs) > 0 THEN "capture" ELSE "run"

\* where the loop goes once the inputs are added
AfterBind(outs) == IF Len(outs) > 0 THEN "capture" ELSE "run"

\* Branch with the column count not compared
BranchAnyCount(values, ins) == IF Len(values) = 0 THEN "skip" ELSE "simulate"

\* the branch a line takes: "skip" (continue), "simulate" or "reject"
Branch(values, ins) ==
  IF Len(values) = 0
  THEN "skip"
  ELSE IF Len(values) = Len(ins) THEN "simulate" ELSE "reject"

\* Read one line of the input file: strip, split, and choose the branch
ReadLine ==
  /\ UNCHANGED procs
  /\ pc = "readLine"
  /\ lineNo < MaxLines
  /\ \E raw \in Lines :
       LET values == Split(Strip(raw), ",")
           branch == Branch(values, inputs)
       IN  /\ line' = Strip(raw)
           /\ inputs_values' = values
           /\ lineNo' = lineNo + 1
           /\ issued' = <<>>
           /\ pc' = IF branch = "simulate" THEN "rm" ELSE "readLine"
           /\ accepted' = IF branch = "simulate" THEN accepted + 1 ELSE accepted
           /\ diags' = IF branch = "reject" THEN diags + 1 ELSE diags
  /\ UNCHANGED << hist, options, stopOnValidOf, maps, rc, stdout, idx, simbox, outfile >>

\* Remove the simbox file; the completion status is not looked at
RemoveSimbox ==
  /\ Reaped
  /\ pc = "rm"
  /\ \E r \in ReturnCodes :
       /\ rc' = r
       /\ simbox' = IF r = 0 THEN <<>> ELSE simbox
  /\ pc' = "config"
  /\ idx' = 0
  /\ UNCHANGED << hist, options, stopOnValidOf, maps, stdout, row, outfile, issued >>

\* Issue with the completion status never looked at
IssueIgnoringStatus(cmd, r, nextpc, nextidx) ==
  /\ rc' = r
  /\ issued' = Append(issued, cmd)
  /\ simbox' = Append(simbox, cmd)
  /\ pc' = nextpc
  /\ idx' = nextidx

\* one external sandbox action: fatal when it completes non-zero
Issue(cmd, r, nextpc, nextidx) ==
  /\ rc' = r
  /\ issued' = Append(issued, cmd)
  /\ IF r # 0
     THEN /\ pc' = "exit2"
          /\ UNCHANGED << simbox, idx >>
     ELSE /\ simbox' = Append(simbox, cmd)
          /\ pc' = nextpc
          /\ idx' = nextidx

\* for command in commands
ConfigStep ==
  /\ Reaped
  /\ pc = "config"
  /\ \E r \in ReturnCodes :
       IF idx + 1 < Len(commands)
       THEN Issue(commands[idx + 1], r, "config", idx + 1)
       ELSE Issue(commands[idx + 1], r, AfterConfig(inputs_values, outputs), 0)
  /\ UNCHANGED << hist, options, stopOnValidOf, maps, stdout, row, outfile >>

\* Add the inputs to the simbox: for i in range(len(inputs_values))
BindStep ==
  /\ pc = "bind"
  /\ IF ~DictHas(inputs, IntToStr(idx))
     THEN \* inputs[str(i)] raises KeyError
          /\ ~waiting
          /\ pc' = "crash"
          /\ UNCHANGED << rc, issued, simbox, idx, procs >>
     ELSE /\ Reaped
          /\ \E r \in ReturnCodes :
               LET cmd == BindCommand(DictGet(inputs, IntToStr(idx)), inputs_values[idx + 1])
               IN  IF idx + 1 < Len(inputs_values)
                   THEN Issue(cmd, r, "bind", idx + 1)
                   ELSE Issue(cmd, r, AfterBind(outputs), 0)
  /\ UNCHANGED << hist, options, stopOnValidOf, maps, stdout, row, outfile >>

\* Prepare the outputs to be collected: for output_name in outputs
CaptureStep ==
  /\ Reaped
  /\ pc = "capture"
  /\ \E r \in ReturnCodes :
       LET cmd == CaptureCommand(benchCore, outputs, outputs[idx + 1][2])
       IN  IF idx + 1 < Len(outputs)
           THEN Issue(cmd, r, "capture", idx + 1)
           ELSE Issue(cmd, r, "run", 0)
  /\ UNCHANGED << hist, options, stopOnValidOf, maps, stdout, row, outfile >>

\* Run the simulation
RunSim ==
  /\ Reaped
  /\ pc = "run"
  /\ stopOnValidOf' = StopTarget(stopOnValidOf, outputs)
  /\ \E r \in ReturnCodes :
       /\ rc' = r
       /\ issued' = Append(issued, RunCommand(stopOnValidOf'))
       /\ IF r # 0
          THEN /\ pc' = "exit2"
               /\ stdout' = <<>>
               /\ UNCHANGED readouts
          ELSE /\ pc' = "decode"
               /\ stdout' \in Readouts
               /\ readouts' = Append(readouts, stdout')
  /\ UNCHANGED << options, maps, row, idx, simbox, outfile >>

\* Decode the readout and write the output line
DecodeWrite ==
  /\ UNCHANGED procs
  /\ pc = "decode"
  /\ stdout' = <<>>
  /\ IF DecodeRaises(stdout, isml, benchCore, omit_prefix, prefix)
     THEN /\ pc' = "crash"
          /\ UNCHANGED outfile
     ELSE /\ pc' = "readLine"
          /\ outfile' = WriteLine(outfile,
                                   DecodeLine(stdout, isml, benchCore, omit_prefix, prefix))
  /\ UNCHANGED << hist, options, stopOnValidOf, maps, rc, row, idx, simbox, issued >>

\* End of the input file: both files are closed
CloseFiles ==
  /\ UNCHANGED procs
  /\ pc = "readLine"
  /\ lineNo <= MaxLines
  /\ pc' = "done"
  /\ UNCHANGED << hist, options, stopOnValidOf, maps, rc, stdout, row, idx, simbox, outfile,
                  issued >>

Next ==
  \/ Popen
  \/ ListInputs
  \/ ListOutputs
  \/ GetPrefix
  \/ OpenFiles
  \/ ReadLine
  \/ RemoveSimbox
  \/ ConfigStep
  \/ BindStep
  \/ CaptureStep
  \/ RunSim
  \/ DecodeWrite
  \/ CloseFiles

Spec == Init /\ [][Next]_vars

(***************************************************************************)
(* Vocabulary of the properties.                                           *)
(***************************************************************************)
\* the script is inside the simulation branch of a line
InRow == pc \in {"rm", "config", "bind", "capture", "run", "decode"}

\* the script stopped inside the simulation branch of a line
Stopped == pc \in {"exit2", "crash"}

\* the loop has been entered
Looping == pc \notin {"listInputs", "listOutputs", "getPrefix", "open"}

\* the data rows of the output file
DataRows == IF header /\ Looping THEN Tail(outfile) ELSE outfile

\* the script is between two lines of the input file: the only place where
\* the output file has just been written (OpenFiles and DecodeWrite lead here)
BetweenLines == pc = "readLine"

\* accepted lines whose simulation branch ran to its end
Processed == IF InRow \/ Stopped THEN accepted - 1 ELSE accepted

(***************************************************************************)
(* C1                                                                      *)
(***************************************************************************)
\* C1: a toggle, suspend, bind, capture or engine invocation that completes
\* with a non-zero status takes the script to exit status 2 in that very step,
\* with the output file as it was; once there, no step issues an action or
\* writes a line.
C1_BatchFatal ==
  [][ /\ (pc \in {"config", "bind", "capture", "run"} /\ issued' # issued /\ rc' # 0)
           => (pc' = "exit2" /\ outfile' = outfile)
      /\ pc = "exit2" => (pc' = "exit2" /\ outfile' = outfile /\ issued' = issued)
    ]_vars

\* a fatal exit after an earlier row was written
C1_Witness == pc = "exit2" /\ rc # 0 /\ Len(DataRows) >= 1 /\ issued # <<>>

(***************************************************************************)
(* C2                                                                      *)
(***************************************************************************)
\* C2: once a line was rejected for its column count, and as long as no
\* external action has failed, the batch goes on: whenever the script is back
\* between lines, at the end, or stopped otherwise than by a failed action,
\* every accepted line has its output record.
C2_SoftFail ==
  (diags > 0 /\ pc \in {"readLine", "done", "crash"}) => Len(DataRows) = accepted

(***************************************************************************)
(* C3                                                                      *)
(***************************************************************************)
\* C3: at every moment the output file has one data row per accepted line
\* processed to its end; the rows, compared where the file has just been
\* written (between lines) and at the end, are in input order: the i-th data
\* row is the decoding of the readout of the i-th simulation.
C3_OutputOrder ==
  Looping =>
    /\ Len(DataRows) = Processed
    /\ Len(readouts) >= Len(DataRows)
    /\ (BetweenLines \/ pc = "done") =>
         \A i \in 1..Len(DataRows) :
           DataRows[i] = DecodeLine(readouts[i], isml, benchCore, omit_prefix, prefix)

\* a rejected line, then an accepted one whose row is the only data row,
\* below a header
C3_Witness ==
  /\ pc = "done"
  /\ header
  /\ lineNo = 2
  /\ diags = 1
  /\ Len(inputs_values) = Len(inputs)
  /\ Len(DataRows) = 1
  /\ Len(DataRows[1]) > 0

(***************************************************************************)
(* C4                                                                      *)
(***************************************************************************)
\* the order the claim states for the ten configuration actions
C4_ConfigOrder ==
  << [kind |-> "add config", name |-> <<"show_io_pre">>,  value |-> <<>>, n |-> 0],
     [kind |-> "suspend",    name |-> <<>>,               value |-> <<>>, n |-> 0],
     [kind |-> "add config", name |-> <<"show_io_post">>, value |-> <<>>, n |-> 0],
     [kind |-> "suspend",    name |-> <<>>,               value |-> <<>>, n |-> 1],
     [kind |-> "add config", name |-> <<"show_ticks">>,   value |-> <<>>, n |-> 0],
     [kind |-> "suspend",    name |-> <<>>,               value |-> <<>>, n |-> 2],
     [kind |-> "add config", name |-> <<"show_pc">>,      value |-> <<>>, n |-> 0],
     [kind |-> "suspend",    name |-> <<>>,               value |-> <<>>, n |-> 3],
     [kind |-> "add config", name |-> <<"show_disasm">>,  value |-> <<>>, n |-> 0],
     [kind |-> "suspend",    name |-> <<>>,               value |-> <<>>, n |-> 4] >>

\* C4: the actions issued for a line are, in this order, the ten configuration
\* actions, one bind per value, one capture per output and one engine
\* invocation; the output record of the line is written only after all of them.
C4_ActionOrder ==
  LET nb == Len(inputs_values)
      nc == Len(outputs)
  IN  /\ Len(issued) <= 10 + nb + nc + 1
      /\ \A i \in 1..Len(issued) :
           /\ i <= 10 => issued[i] = C4_ConfigOrder[i]
           /\ (10 < i /\ i <= 10 + nb) => issued[i].kind = "add absolute:0:set"
           /\ (10 + nb < i /\ i <= 10 + nb + nc) => issued[i].kind = "add onexit:show"
           /\ i = 10 + nb + nc + 1 => issued[i].kind = "sim"
      /\ (InRow \/ Stopped) => Len(DataRows) = accepted - 1
      /\ pc = "decode" => Len(issued) = 10 + nb + nc + 1
      /\ (pc \in {"readLine", "done"} /\ Len(DataRows) = accepted /\ issued # <<>>)
           => Len(issued) = 10 + nb + nc + 1

\* a record written after the full script of a line with two values, two outputs
C4_Witness ==
  /\ pc = "readLine"
  /\ Len(inputs_values) = 2
  /\ Len(outputs) = 2
  /\ Len(issued) = 15
  /\ Len(DataRows) = 1

(***************************************************************************)
(* C5                                                                      *)
(***************************************************************************)
\* C5: an action is issued for a line, and the simulation branch is entered,
\* only when the line has as many fields as there are inputs.
C5_Gating ==
  (issued # <<>> \/ InRow \/ Stopped) => Len(inputs_values) = Len(inputs)

\* actions issued for a line that follows a rejected one
C5_Witness == issued # <<>> /\ diags > 0 /\ Len(inputs) = 2

(***************************************************************************)
(* C6                                                                      *)
(***************************************************************************)
\* C6: a line that is empty once stripped is skipped: no action is issued for
\* it and the simulation branch is not entered, whatever the number of inputs.
C6_BlankSkipped ==
  (lineNo > 0 /\ line = <<>>) => (issued = <<>> /\ ~InRow /\ ~Stopped)

(***************************************************************************)
(* C7                                                                      *)
(***************************************************************************)
\* C7: when list-inputs or list-outputs completed non-zero, its map is empty
\* and every data line (a line that is not blank) is rejected: no action is
\* issued for it, the simulation branch is not entered, and the script does
\* not end in an uncaught exception.
C7_IntrospectionSoftFail ==
  listFailed # {} =>
    /\ "inputs" \in listFailed => inputs = <<>>
    /\ "outputs" \in listFailed => outputs = <<>>
    /\ line # <<>> => (issued = <<>> /\ ~InRow /\ ~Stopped)

(***************************************************************************)
(* C8                                                                      *)
(***************************************************************************)
\* the bind actions among the first k actions issued for the current line
C8_Binds(k) == { i \in 1..k : issued[i].kind = "add absolute:0:set" }

\* C8: the binds of a line are issued in index order, right after the
\* configuration actions; the i-th one (from 0) sets the input the listing
\* names for index i to the i-th value of the line, at time 0, absolute; once
\* the binds are over there are exactly as many as the line has values.
C8_InputBinding ==
  LET nb == Len(inputs_values)
  IN  /\ \A i \in C8_Binds(Len(issued)) :
           /\ 10 < i /\ i <= 10 + nb
           /\ issued[i].value = inputs_values[i - 10]
           /\ \E j \in 1..Len(inputs) :
                /\ inputs[j][1] = IntToStr(i - 11)
                /\ issued[i].name = inputs[j][2]
      /\ \A i \in 1..Len(issued) : (10 < i /\ i <= 10 + nb) => i \in C8_Binds(Len(issued))
      /\ pc \in {"capture", "run", "decode"} => Cardinality(C8_Binds(Len(issued))) = nb

\* both values of the line " 2,1" bound, 2 to a and 1 to b
C8_Witness ==
  /\ pc = "capture"
  /\ inputs_values = << <<"2">>, <<"1">> >>
  /\ Cardinality(C8_Binds(Len(issued))) = 2
  /\ issued[11].name = <<"a">> /\ issued[11].value = <<"2">>
  /\ issued[12].name = <<"b">> /\ issued[12].value = <<"1">>

(***************************************************************************)
(* C9                                                                      *)
(***************************************************************************)
\* the capture requests among the actions issued for the current line
C9_Captures == { i \in 1..Len(issued) : issued[i].kind = "add onexit:show" }

\* C9: the captures of a line follow its binds, one per entry of the output
\* map and in its order; with benchCore the one of the last entry, and no
\* other, is shown as unsigned, every other one as the configured data type.
C9_CaptureEncoding ==
  LET nb == Len(inputs_values)
      nc == Len(outputs)
  IN  /\ \A i \in C9_Captures :
           /\ 10 + nb < i /\ i <= 10 + nb + nc
           /\ issued[i].name = outputs[i - 10 - nb][2]
           /\ issued[i].value =
                IF benchCore /\ i - 10 - nb = nc THEN <<"unsigned">> ELSE <<"float32">>
      /\ (pc \in {"run", "decode"} \/ Len(issued) = 10 + nb + nc + 1)
           => Cardinality(C9_Captures) = nc

\* two captures in benchCore mode, the last one unsigned
C9_Witness ==
  /\ pc = "run"
  /\ benchCore
  /\ Cardinality(C9_Captures) = 2
  /\ issued[Len(issued)].value = <<"unsigned">>
  /\ issued[Len(issued) - 1].value = <<"float32">>

(***************************************************************************)
(* C10                                                                     *)
(***************************************************************************)
\* the probability tokens of a readout: its words once stripped of the prefix,
\* the last one left out in benchCore mode
C10_Tokens(r) ==
  LET words == Split(Stripped(r, omit_prefix, prefix), " ")
  IN  IF benchCore THEN SubSeq(words, 1, Len(words) - 1) ELSE words

\* the first position (from 0) that holds the greatest value
C10_FirstMax(toks) ==
  (CHOOSE i \in 1..Len(toks) :
     /\ \A j \in 1..Len(toks) : FloatVal(toks[i]) >= FloatVal(toks[j])
     /\ \A j \in 1..(i - 1) : FloatVal(toks[j]) < FloatVal(toks[i])) - 1

\* C10: in ML mode, the data row of a readout of k >= 1 probability tokens is
\* these k tokens followed by the position of the first greatest one (and then
\* by the latency field in benchCore mode).
C10_MLClassification ==
  (isml /\ BetweenLines) =>
    \A r \in 1..Len(DataRows) :
      LET toks   == C10_Tokens(readouts[r])
          fields == Split(DataRows[r], ",")
          k      == Len(toks)
      IN  (k >= 1 /\ \A i \in 1..k : IsFloat(toks[i])) =>
            /\ Len(fields) = IF benchCore THEN k + 2 ELSE k + 1
            /\ SubSeq(fields, 1, k) = toks
            /\ fields[k + 1] = IntToStr(C10_FirstMax(toks))

\* the readout "0f0.1 0f0.9" written as 0.1,0.9,1 and "0f2 0f2" as 2,2,0
C10_Witness ==
  /\ BetweenLines
  /\ isml
  /\ ~benchCore
  /\ Len(DataRows) = 2
  /\ DataRows[1] = <<"0", ".", "1", ",", "0", ".", "9", ",", "1">>
  /\ DataRows[2] = <<"2", ",", "2", ",", "0">>

(***************************************************************************)
(* C11                                                                     *)
(***************************************************************************)
\* the white-space delimited words of a readout once stripped of the prefix
C11_Words(r) == SplitWS(Stripped(r, omit_prefix, prefix))

\* C11: in benchCore mode the last field of every data row is the last word
\* of the prefix-stripped readout, and the fields before it are built from the
\* other words only: in plain mode they are these words; in ML mode they are
\* these words and a class index that points at one of them, the first
\* greatest among them.
C11_BenchLatency ==
  (benchCore /\ BetweenLines) =>
    \A r \in 1..Len(DataRows) :
      LET words  == C11_Words(readouts[r])
          n      == Len(words)
          probs  == SubSeq(words, 1, n - 1)
          fields == Split(DataRows[r], ",")
      IN  n >= 1 =>
            /\ fields[Len(fields)] = words[n]
            /\ (~isml /\ n >= 2) => fields = words
            /\ isml =>
                 /\ fields = probs \o <<fields[n]>> \o <<words[n]>>
                 /\ IsFloat(fields[n])
                 /\ FloatVal(fields[n]) \div 1000 < n - 1
                 /\ \A j \in 1..(n - 1) :
                      FloatVal(probs[(FloatVal(fields[n]) \div 1000) + 1])
                        >= FloatVal(probs[j])

\* ML and benchCore: the readout "0f0.1 0f0.9" written as 0.1,0,0.9 (the
\* latency 0.9 is greater than the only probability and is not the class)
C11_Witness ==
  /\ BetweenLines
  /\ isml
  /\ benchCore
  /\ Len(DataRows) >= 1
  /\ DataRows[1] = <<"0", ".", "1", ",", "0", ",", "0", ".", "9">>

(***************************************************************************)
(* C12                                                                     *)
(***************************************************************************)
\* C12: while the script of a line is built, and when the engine is started
\* on it, simboxtemp.json holds exactly the actions issued for that line, in
\* order, and nothing from an earlier line.
C12_FreshSandbox ==
  pc \in {"config", "bind", "capture", "run"} => simbox = issued

C14_Contains(s, p) == \E i \in 1..(Len(s) - Len(p) + 1) : SubSeq(s, i, i + Len(p) - 1) = p

\* a readout field made of the prefix and a number
C14_Carries(w) == StartsWith(w, prefix) /\ IsFloat(SubSeq(w, Len(prefix) + 1, Len(w)))

\* C14: with prefix omission on, the data row of a readout whose fields each
\* carry the prefix holds the bare numbers, each at its place (the last one at
\* the end in benchCore mode), and no field of the row contains the prefix.
\* In particular, with prefix 0f, the readout "0f0.1 0f0.9" gives 0.1,0.9,1 in
\* ML mode and the readout "0f3.5" gives 3.5 in plain mode.
C14_PrefixStripping ==
  (omit_prefix /\ BetweenLines) =>
    \A r \in 1..Len(DataRows) :
      LET words  == SplitWS(readouts[r])
          n      == Len(words)
          fields == Split(DataRows[r], ",")
      IN  /\ (n >= 1 /\ \A i \in 1..n : C14_Carries(words[i])) =>
                /\ \A f \in 1..Len(fields) : ~C14_Contains(fields[f], prefix)
                /\ \A i \in 1..n :
                     fields[IF benchCore /\ i = n THEN Len(fields) ELSE i]
                       = SubSeq(words[i], Len(prefix) + 1, Len(words[i]))
          /\ ( /\ prefix = <<"0", "f">> /\ isml /\ ~benchCore
               /\ words = << <<"0", "f", "0", ".", "1">>, <<"0", "f", "0", ".", "9">> >> )
               => DataRows[r] = <<"0", ".", "1", ",", "0", ".", "9", ",", "1">>
          /\ ( /\ prefix = <<"0", "f">> /\ ~isml /\ ~benchCore
               /\ words = << <<"0", "f", "3", ".", "5">> >> )
               => DataRows[r] = <<"3", ".", "5">>

\* an example of the claim, written as the first data row
C14_Witness ==
  /\ BetweenLines
  /\ omit_prefix
  /\ prefix = <<"0", "f">>
  /\ Len(DataRows) = 2
  /\ \/ /\ isml
        /\ DataRows[1] = <<"0", ".", "1", ",", "0", ".", "9", ",", "1">>
     \/ /\ ~isml
        /\ DataRows[1] = <<"3", ".", "5">>
        /\ DataRows[2] = <<"0", ".", "1", ",", "0", ".", "9">>

(***************************************************************************)
(* C15                                                                     *)
(***************************************************************************)
\* C15: at most one child process is outstanding at any time, and only while
\* the script waits for it at a statement that starts one; while a line is in
\* its simulation branch, whether a child runs or actions were issued for it,
\* every accepted line before it has its record in the output file.
C15_Sequential ==
  /\ running \in {0, 1}
  /\ (running = 1) <=> waiting
  /\ waiting => pc \in ExternalPcs
  /\ (InRow /\ (running > 0 \/ issued # <<>>)) => Len(DataRows) = accepted - 1

\* a child outstanding for the second accepted line, after actions of that
\* line, the record of the first being written
C15_Witness ==
  /\ running = 1
  /\ pc = "capture"
  /\ issued # <<>>
  /\ accepted = 2
  /\ Len(DataRows) = 1

(***************************************************************************)
(* C16                                                                     *)
(***************************************************************************)
\* C16: with the header flag the output file starts with exactly one header
\* row, before any data row; in ML mode it is probability_0, ...,
\* probability_{k-1}, classification, then latency_cycles exactly in
\* benchCore mode, and it has as many comma-separated fields as every data
\* row of a simulation that printed one value per output (k being the number
\* of probability fields of the row), also with ML and benchCore both on.
\* Compared after a line that is not blank.
C16_HeaderConsistency ==
  (header /\ BetweenLines /\ (lineNo > 0 => line # <<>>)) =>
    /\ Len(outfile) = Len(DataRows) + 1
    /\ isml =>
         \A r \in 1..Len(DataRows) :
           LET words  == SplitWS(readouts[r])
               fields == Split(DataRows[r], ",")
               k      == IF benchCore THEN Len(fields) - 2 ELSE Len(fields) - 1
           IN  Len(words) = Len(outputs) =>
                 /\ outfile[1] = HeaderLine(TRUE, benchCore, k)
                 /\ Len(Split(outfile[1], ",")) = Len(fields)

(***************************************************************************)
(* C17                                                                     *)
(***************************************************************************)
\* C17: the batch ends in one of two ways only: at the end of the input file,
\* every accepted line having its record and every other line having been
\* rejected or skipped, or at exit status 2, taken at an external action of an
\* accepted line that completed non-zero; it never ends otherwise, and a
\* rejected line never leads to exit status 2.  The third ending is looked for
\* where nothing else went wrong: the three listings were obtained, the line
\* is not blank and the simulation printed one value per output, each a
\* number carrying the prefix.
C17_Termination ==
  /\ ( /\ listFailed = {}
       /\ line # <<>>
       /\ readouts # <<>>
       /\ LET words == SplitWS(readouts[Len(readouts)])
          IN  /\ Len(words) = Len(outputs)
              /\ \A i \in 1..Len(words) : C14_Carries(words[i]) ) => pc # "crash"
  /\ pc = "exit2" => (rc # 0 /\ issued # <<>> /\ Len(inputs_values) = Len(inputs))
  /\ pc = "done" => (Len(DataRows) = accepted /\ running = 0)

====
